---------------------------- MODULE Spec2Model ----------------------------
(***************************************************************************)
(* A model of the RAG document summarizer: rag_engine.py (RAGEngine: text  *)
(* extraction, chunking, embedding, the Chroma collection, query and       *)
(* summarize) and app.py (the Flask handlers in front of it).              *)
(*                                                                         *)
(* A Python str is a sequence of one-character strings.  The collection is *)
(* the sequence of its records in insertion order.                         *)
(***************************************************************************)
EXTENDS Integers, Sequences, FiniteSets, TLC

VARIABLES
    store,    \* rag.collection: the records of the Chroma collection, in insertion order
    last,     \* the request the Flask app served last, and its response
    ck        \* one call of RAGEngine.chunk_text in progress (its locals)

vars == <<store, last, ck>>

---------------------------------------------------------------------------
(* Bounds of the chunker's inputs.                                         *)

MaxLen == 4          \* longest text drawn from the alphabet
MaxChunkSize == 5    \* largest chunk_size / overlap tried beside the defaults
MaxIters == 6        \* iterations of the while loop the model follows

---------------------------------------------------------------------------
(* Python helpers.                                                         *)

Min(a, b) == IF a < b THEN a ELSE b
Max(a, b) == IF a > b THEN a ELSE b

\* The characters str.strip() removes.
Whitespace == {" ", "\n", "\t"}

\* s[start:end] of a Python str: a negative index counts from the end, and
\* both ends are clamped to the string.
PyIndex(len, i) == IF i < 0 THEN Max(0, len + i) ELSE Min(i, len)

PySlice(s, start, end) ==
    LET lo == PyIndex(Len(s), start)
        hi == PyIndex(Len(s), end)
    IN  IF lo < hi THEN SubSeq(s, lo + 1, hi) ELSE <<>>

\* s.strip(chars): the leading and trailing characters of the set removed.
MinOf(S) == CHOOSE x \in S : \A y \in S : x <= y
MaxOf(S) == 0 - MinOf({0 - x : x \in S})

StripChars(s, chars) ==
    LET keep == {i \in 1..Len(s) : s[i] \notin chars}
    IN  IF keep = {} THEN <<>> ELSE SubSeq(s, MinOf(keep), MaxOf(keep))

\* s.strip()
strip(s) == StripChars(s, Whitespace)

\* sep.join(parts)
RECURSIVE join(_, _)
join(sep, parts) ==
    IF parts = <<>> THEN <<>>
    ELSE IF Len(parts) = 1 THEN parts[1]
    ELSE parts[1] \o sep \o join(sep, Tail(parts))

\* Python's None: no str (a str is a sequence of single characters).
None == <<"None">>

\* c.lower() for one character
UpperCase == <<"D", "F", "P", "T", "X">>
LowerCase == <<"d", "f", "p", "t", "x">>
LowerChar(c) ==
    IF \E i \in 1..Len(UpperCase) : UpperCase[i] = c
    THEN LowerCase[CHOOSE i \in 1..Len(UpperCase) : UpperCase[i] = c]
    ELSE c

\* s.lower()
lower(s) == [i \in 1..Len(s) |-> LowerChar(s[i])]

\* The index of the last "." of s, 0 when it has none.
LastDot(s) ==
    LET dots == {i \in 1..Len(s) : s[i] = "."}
    IN  IF dots = {} THEN 0 ELSE MaxOf(dots)

---------------------------------------------------------------------------
(* RAGEngine.chunk_text                                                    *)

\* The defaults of chunk_text's parameters.
DefaultChunkSize == 1000
DefaultOverlap == 200

\* chunk_iter with the trimmed window stored (chunks.append(chunk.strip())).
chunk_iter_trimmed(text, chunk_size, overlap, st) ==
    LET end == st.start + chunk_size
        chunk == PySlice(text, st.start, end)
    IN  [start  |-> st.start + (chunk_size - overlap),
         chunks |-> IF strip(chunk) # <<>> THEN Append(st.chunks, strip(chunk))
                    ELSE st.chunks]

\* chunk_iter with the cursor advanced by a whole window (start = end).
chunk_iter_no_overlap(text, chunk_size, overlap, st) ==
    LET end == st.start + chunk_size
        chunk == PySlice(text, st.start, end)
    IN  [start  |-> end,
         chunks |-> IF strip(chunk) # <<>> THEN Append(st.chunks, chunk)
                    ELSE st.chunks]

\* One iteration of the while loop: the window, the strip test, the advance.
chunk_iter(text, chunk_size, overlap, st) ==
    LET end == st.start + chunk_size
        chunk == PySlice(text, st.start, end)
    IN  [start  |-> st.start + (chunk_size - overlap),
         chunks |-> IF strip(chunk) # <<>> THEN Append(st.chunks, chunk)
                    ELSE st.chunks]

RECURSIVE chunk_while(_, _, _, _)
chunk_while(text, chunk_size, overlap, st) ==
    IF st.start < Len(text)
    THEN chunk_while(text, chunk_size, overlap,
                     chunk_iter(text, chunk_size, overlap, st))
    ELSE st.chunks

\* chunk_text as add_document calls it (a call that returns).
chunk_text(text, chunk_size, overlap) ==
    chunk_while(text, chunk_size, overlap, [start |-> 0, chunks |-> <<>>])

---------------------------------------------------------------------------
(* app.py: allowed_file, and werkzeug's secure_filename as upload_files    *)
(* uses it.  A filename is a Python str.                                   *)

ALLOWED_EXTENSIONS == {<<"p", "d", "f">>, <<"d", "o", "c", "x">>, <<"t", "x", "t">>}

\* '.' in filename and filename.rsplit('.', 1)[1].lower() in ALLOWED_EXTENSIONS
allowed_file(filename) ==
    /\ LastDot(filename) # 0
    /\ lower(SubSeq(filename, LastDot(filename) + 1, Len(filename))) \in ALLOWED_EXTENSIONS

\* "_".join(s.split()) on a string without leading or trailing whitespace:
\* every run of whitespace becomes one "_".
RECURSIVE JoinWords(_)
JoinWords(s) ==
    IF s = <<>> THEN <<>>
    ELSE IF Head(s) \in Whitespace
         THEN IF Len(s) > 1 /\ s[2] \in Whitespace
              THEN JoinWords(Tail(s))
              ELSE <<"_">> \o JoinWords(Tail(s))
         ELSE <<Head(s)>> \o JoinWords(Tail(s))

\* The characters secure_filename keeps: [A-Za-z0-9_.-].
FilenameChars ==
    {"a", "b", "c", "d", "e", "f", "o", "p", "t", "x", "D", "F", "P", "T", "X",
     "0", "1", "_", ".", "-"}

IsFilenameChar(c) == c \in FilenameChars

\* secure_filename: path separators become blanks, the words are joined by
\* "_", every other character outside [A-Za-z0-9_.-] is dropped, and leading
\* and trailing "." and "_" are stripped.
secure_filename(filename) ==
    LET spaced == [i \in 1..Len(filename) |->
                      IF filename[i] = "/" THEN " " ELSE filename[i]]
    IN  StripChars(SelectSeq(JoinWords(strip(spaced)), IsFilenameChar), {".", "_"})

---------------------------------------------------------------------------
(* RAGEngine.extract_text.  The saved upload is read back by its extension: *)
(* a PDF's content is its pages, a DOCX's its paragraphs, a TXT's its text  *)
(* (each a sequence of strings; a TXT holds one).                          *)

\* os.path.splitext(filepath)[1] for a filepath whose last component is
\* filename: from the last "." on, unless only dots come before it.
splitext_ext(filename) ==
    LET d == LastDot(filename)
    IN  IF d # 0 /\ \E i \in 1..(d - 1) : filename[i] # "."
        THEN SubSeq(filename, d, Len(filename))
        ELSE <<>>

RECURSIVE concat_pages(_)
concat_pages(pages) ==
    IF pages = <<>> THEN <<>>
    ELSE pages[1] \o <<"\n">> \o concat_pages(Tail(pages))

\* [raised |-> FALSE, text |-> ...], or the ValueError of the last branch.
extract_text(filename, content) ==
    LET ext == lower(splitext_ext(filename))
    IN  IF ext = <<".", "p", "d", "f">>
        THEN [raised |-> FALSE, text |-> concat_pages(content)]
        ELSE IF ext = <<".", "d", "o", "c", "x">>
        THEN [raised |-> FALSE, text |-> join(<<"\n">>, content)]
        ELSE IF ext = <<".", "t", "x", "t">>
        THEN [raised |-> FALSE, text |-> join(<<>>, content)]
        ELSE [raised |-> TRUE, error |-> <<"Unsupported file type: ", ext>>]

---------------------------------------------------------------------------
(* The requests the model sends.                                           *)

\* A long text: letters that vary with the position, blank from wsFrom to wsTo.
Glyph(i) == IF ((i * i) \div 7 + i) % 3 = 0 THEN "b" ELSE "a"

LongText(len, wsFrom, wsTo) ==
    SubSeq([i \in 1..len |-> IF wsFrom <= i /\ i <= wsTo THEN " " ELSE Glyph(i)], 1, len)

A_txt == <<"a", ".", "t", "x", "t">>
Up_A_txt == <<".", ".", "/", "a", ".", "t", "x", "t">>
B_pdf == <<"b", ".", "P", "D", "F">>
C_exe == <<"c", ".", "e", "x", "e">>
Dot_txt == <<".", "t", "x", "t">>
D_docx == <<"d", ".", "d", "o", "c", "x">>

Part(key, filename, content) == [key |-> key, filename |-> filename, content |-> content]

\* Uploads of small files: one chunk, none, two around a skipped window;
\* names that collide once secured; refused and empty parts.
IngestUploads ==
    { <<>>,
      <<Part("files", <<>>, <<>>)>>,
      <<Part("files", A_txt, << <<"a", "b">> >>)>>,
      <<Part("files", A_txt, << <<" ", "\n">> >>)>>,
      <<Part("files[]", Up_A_txt, <<LongText(2000, 801, 1800)>>)>>,
      <<Part("docs", B_pdf, << <<"a", "b">>, <<>> >>)>>,
      <<Part("files", Dot_txt, << <<"a">> >>)>>,
      <<Part("files", C_exe, << <<"a">> >>), Part("other", B_pdf, << <<"a">> >>),
        Part("files", A_txt, << <<" ", "b", "\n">> >>), Part("files", <<>>, <<>>)>>,
      <<Part("files", A_txt, << <<"a", "b">> >>),
        Part("files", B_pdf, << <<"a", "b">>, <<>> >>)>> }

\* Uploads that fill the collection: a text of 21 chunks, and a second file.
ReadUploads ==
    { <<Part("files", A_txt, <<LongText(16100, 1, 0)>>)>>,
      <<Part("files", D_docx, << <<"b">>, <<"b", "b">> >>)>> }

\* The JSON bodies of POST /query: the keys a body holds are its fields.
QueryRequests ==
    { [n_results |-> 1],
      [question |-> <<"a">>],
      [question |-> <<"b">>, n_results |-> 2],
      [question |-> <<"b">>, n_results |-> 0] }

SummarizeRequests ==
    { [filename |-> None], [filename |-> <<>>], [filename |-> A_txt],
      [filename |-> D_docx], [filename |-> C_exe] }

---------------------------------------------------------------------------
(* The services the engine calls: ollama (embeddings, generate) and the    *)
(* Chroma collection.  Each call either returns or raises; a request's     *)
(* fault names the one call of it that raises, if any.                     *)

NoFault == [svc |-> "none", call |-> 0]

EmbeddingError == <<"ollama.embeddings failed">>
GenerationError == <<"ollama.generate failed">>
StoreError == <<"chromadb call failed">>

\* ollama.embeddings(model="nomic-embed-text", prompt=text)["embedding"]: a
\* vector that is a function of the text.  The model stands in three
\* coordinates for it: whether the text holds an "a", whether it holds a
\* "b", and a constant (no vector is zero).
get_embedding(text) ==
    <<IF \E i \in 1..Len(text) : text[i] = "a" THEN 1 ELSE 0,
      IF \E i \in 1..Len(text) : text[i] = "b" THEN 1 ELSE 0,
      1>>

\* ollama.generate(model="llama3.2", prompt=prompt)['response']
GeneratedText == <<"generated text">>

\* hashlib.md5(filename.encode()).hexdigest(): one digest per filename (no
\* two filenames of the model collide).
md5_hexdigest(filename) == <<"md5">> \o filename

\* An id that leaves the chunk's index out.
chunk_id_without_index(doc_id, i) == [doc_id |-> doc_id, index |-> 0]

\* f"{doc_id}_{i}": the digest holds no "_", so the id names the pair.
chunk_id(doc_id, i) == [doc_id |-> doc_id, index |-> i]

Dot(u, v) == u[1] * v[1] + u[2] * v[2] + u[3] * v[3]

\* Whether u is strictly nearer to q than v is in cosine distance
\* 1 - q.u / (|q| |u|); every coordinate is >= 0, so the cosines compare by
\* their squares.
Nearer(q, u, v) == Dot(q, u) * Dot(q, u) * Dot(v, v) > Dot(q, v) * Dot(q, v) * Dot(u, u)

HasId(coll, id) == \E i \in 1..Len(coll) : coll[i].id = id

\* collection.add of one record whose id the collection already holds:
\* Chroma logs "Add of existing embedding ID" and leaves the stored record
\* as it is; a new id is appended.
collection_add(coll, id, embedding, document, metadata) ==
    IF HasId(coll, id) THEN coll
    ELSE Append(coll, [id |-> id, embedding |-> embedding, document |-> document,
                       metadata |-> metadata])

\* collection.count()
collection_count(coll) == Len(coll)

\* collection.get(where={"filename": filename}) / collection.get(): the
\* records (all, or those of the file) in insertion order.
IsOfFile(rec, filename) == rec.metadata.filename = filename

RECURSIVE collection_get_where(_, _)
collection_get_where(coll, filename) ==
    IF coll = <<>> THEN <<>>
    ELSE (IF IsOfFile(coll[1], filename) THEN <<coll[1]>> ELSE <<>>)
         \o collection_get_where(Tail(coll), filename)

collection_get(coll) == coll

\* collection.query(query_embeddings=[q], n_results=n): the min(n, count)
\* records nearest to q, nearest first, of equally near ones the one added
\* first.  Rank(i) is the number of records that come before record i.
Rank(coll, q, i) ==
    Cardinality({j \in 1..Len(coll) :
        \/ Nearer(q, coll[j].embedding, coll[i].embedding)
        \/ (~Nearer(q, coll[i].embedding, coll[j].embedding) /\ j < i)})

collection_query(coll, q, n_results) ==
    [r \in 1..Min(n_results, Len(coll)) |->
        coll[CHOOSE i \in 1..Len(coll) : Rank(coll, q, i) = r - 1]]

\* collection.delete() with no ids and no where, as clear() calls it.  Chroma
\* since 0.4 refuses the call (ValueError: "You must provide either ids,
\* where, or where_document to delete"); the releases before it deleted
\* every record.  Both outcomes are kept.
DeleteError == <<"You must provide either ids, where, or where_document to delete.">>

collection_delete(coll) ==
    {[raised |-> TRUE, error |-> DeleteError, store |-> coll],
     [raised |-> FALSE, store |-> <<>>]}

---------------------------------------------------------------------------
(* RAGEngine.add_document.  embeds and adds count the calls of             *)
(* ollama.embeddings and collection.add the request has made so far.       *)

\* for i, chunk in enumerate(chunks): from the chunk at position i + 1 on.
RECURSIVE add_chunks(_, _, _, _, _, _, _, _)
add_chunks(coll, chunks, i, doc_id, filename, fault, embeds, adds) ==
    IF i >= Len(chunks)
    THEN [store |-> coll, raised |-> FALSE, returned |-> Len(chunks),
          embeds |-> embeds, adds |-> adds]
    ELSE IF fault = [svc |-> "embed", call |-> embeds]
    THEN [store |-> coll, raised |-> TRUE, error |-> EmbeddingError,
          embeds |-> embeds + 1, adds |-> adds]
    ELSE IF fault = [svc |-> "store", call |-> adds]
    THEN [store |-> coll, raised |-> TRUE, error |-> StoreError,
          embeds |-> embeds + 1, adds |-> adds + 1]
    ELSE add_chunks(
            collection_add(coll, chunk_id(doc_id, i), get_embedding(chunks[i + 1]),
                           chunks[i + 1],
                           [filename |-> filename, chunk_index |-> i]),
            chunks, i + 1, doc_id, filename, fault, embeds + 1, adds + 1)

\* chunk_text(text) with the default chunk_size and overlap, tabulated once
\* for the texts the uploads of the model carry.
UploadedTexts ==
    LET parts == UNION {{r[i] : i \in 1..Len(r)} : r \in IngestUploads \cup ReadUploads}
        read == {extract_text(secure_filename(part.filename), part.content) : part \in parts}
    IN  {ex.text : ex \in {e \in read : ~e.raised}}

ChunksOfUploadedText ==
    [text \in UploadedTexts |-> chunk_text(text, DefaultChunkSize, DefaultOverlap)]

chunk_text_default(text) ==
    IF text \in UploadedTexts THEN ChunksOfUploadedText[text]
    ELSE chunk_text(text, DefaultChunkSize, DefaultOverlap)

add_document(coll, filename, content, fault, embeds, adds) ==
    LET ex == extract_text(filename, content)
    IN  IF ex.raised
        THEN [store |-> coll, raised |-> TRUE, error |-> ex.error,
              embeds |-> embeds, adds |-> adds]
        ELSE add_chunks(coll, chunk_text_default(ex.text),
                        0, md5_hexdigest(filename), filename, fault, embeds, adds)

---------------------------------------------------------------------------
(* RAGEngine.query, summarize, get_stats.                                  *)

\* list(set(xs)): the distinct elements, in an order Python does not fix.
ListsOfSet(S) ==
    {l \in [1..Cardinality(S) -> S] : \A x \in S : \E i \in 1..Cardinality(S) : l[i] = x}

SeqRange(xs) == {xs[i] : i \in 1..Len(xs)}

\* list(sources), the duplicates kept: query without its set().
query_sources_not_deduplicated(sources) == {sources}

\* list(set(sources))
query_sources(sources) == ListsOfSet(SeqRange(sources))

QueryPrompt(context, question) ==
    [template |-> "answer the question from the context",
     context |-> context, question |-> question]

\* query with the empty check moved after the call of ollama.generate.
query_generates_first(coll, question, n_results, fault) ==
    IF fault = [svc |-> "embed", call |-> 0]
    THEN {[raised |-> TRUE, error |-> EmbeddingError, prompts |-> <<>>]}
    ELSE IF fault = [svc |-> "store", call |-> 0]
    THEN {[raised |-> TRUE, error |-> StoreError, prompts |-> <<>>]}
    ELSE IF n_results <= 0
    THEN {[raised |-> TRUE, error |-> <<"Number of requested results cannot be negative, or zero.">>,
           prompts |-> <<>>]}
    ELSE
    LET results == collection_query(coll, get_embedding(question), n_results)
        documents == [i \in 1..Len(results) |-> results[i].document]
        sources == [i \in 1..Len(results) |-> results[i].metadata.filename]
        prompt == QueryPrompt(join(<<"\n", "\n">>, documents), question)
    IN  IF fault = [svc |-> "generate", call |-> 0]
        THEN {[raised |-> TRUE, error |-> GenerationError, prompts |-> <<prompt>>]}
        ELSE IF documents = <<>>
        THEN {[raised |-> FALSE, answer |-> None, sources |-> <<>>, prompts |-> <<prompt>>]}
        ELSE {[raised |-> FALSE, answer |-> GeneratedText, sources |-> l,
               prompts |-> <<prompt>>] : l \in query_sources(sources)}

\* The outcomes of query(question, n_results): what it returns or raises, and
\* the prompts it passed to ollama.generate on the way.
query(coll, question, n_results, fault) ==
    IF fault = [svc |-> "embed", call |-> 0]
    THEN {[raised |-> TRUE, error |-> EmbeddingError, prompts |-> <<>>]}
    ELSE IF fault = [svc |-> "store", call |-> 0]
    THEN {[raised |-> TRUE, error |-> StoreError, prompts |-> <<>>]}
    ELSE IF n_results <= 0
    THEN {[raised |-> TRUE, error |-> <<"Number of requested results cannot be negative, or zero.">>,
           prompts |-> <<>>]}
    ELSE
    LET results == collection_query(coll, get_embedding(question), n_results)
        documents == [i \in 1..Len(results) |-> results[i].document]
        context == join(<<"\n", "\n">>, documents)
        sources == [i \in 1..Len(results) |-> results[i].metadata.filename]
        prompt == QueryPrompt(context, question)
    IN  IF documents = <<>>
        THEN {[raised |-> FALSE, answer |-> None, sources |-> <<>>, prompts |-> <<>>]}
        ELSE IF fault = [svc |-> "generate", call |-> 0]
        THEN {[raised |-> TRUE, error |-> GenerationError, prompts |-> <<prompt>>]}
        ELSE {[raised |-> FALSE, answer |-> GeneratedText, sources |-> l,
               prompts |-> <<prompt>>] : l \in query_sources(sources)}

\* results['documents'][:20]
SummarizeCap == 20

summarize_sample_uncapped(documents) == documents

summarize_sample(documents) == SubSeq(documents, 1, Min(SummarizeCap, Len(documents)))

SummaryPrompt(sample_text) ==
    [template |-> "summarize in 5-7 bullet points", sample_text |-> sample_text]

NoDocumentsFound == <<"No documents found.">>

\* summarize(filename): filename is None, or a str (an empty one counts as None).
summarize(coll, filename, fault) ==
    IF fault = [svc |-> "store", call |-> 0]
    THEN [raised |-> TRUE, error |-> StoreError, prompts |-> <<>>]
    ELSE
    LET results == IF filename # None /\ filename # <<>>
                   THEN collection_get_where(coll, filename)
                   ELSE collection_get(coll)
        documents == [i \in 1..Len(results) |-> results[i].document]
        prompt == SummaryPrompt(join(<<"\n">>, summarize_sample(documents)))
    IN  IF documents = <<>>
        THEN [raised |-> FALSE, returned |-> NoDocumentsFound, prompts |-> <<>>]
        ELSE IF fault = [svc |-> "generate", call |-> 0]
        THEN [raised |-> TRUE, error |-> GenerationError, prompts |-> <<prompt>>]
        ELSE [raised |-> FALSE, returned |-> GeneratedText, prompts |-> <<prompt>>]

get_stats(coll) == [total_chunks |-> collection_count(coll)]

---------------------------------------------------------------------------
(* app.py: what the handlers compute.  An upload request is the sequence   *)
(* of its multipart file parts [key, filename, content].                   *)

InvalidFileType == <<"Invalid file type">>

\* for file in files: from the file at position i on.
RECURSIVE upload_loop(_, _, _, _, _, _, _)
upload_loop(coll, files, i, results, fault, embeds, adds) ==
    IF i > Len(files)
    THEN [store |-> coll, results |-> results, embeds |-> embeds]
    ELSE
    LET file == files[i]
    IN  IF file.filename # <<>> /\ allowed_file(file.filename)
        THEN LET filename == secure_filename(file.filename)
                 r == add_document(coll, filename, file.content, fault, embeds, adds)
             IN  upload_loop(r.store, files, i + 1,
                    Append(results,
                        IF r.raised
                        THEN [filename |-> filename, status |-> "failed", error |-> r.error]
                        ELSE [filename |-> filename, status |-> "success",
                              chunks_created |-> r.returned]),
                    fault, r.embeds, r.adds)
        ELSE upload_loop(coll, files, i + 1,
                    Append(results,
                        [filename |-> IF file.filename # <<>> THEN file.filename
                                      ELSE <<"unknown">>,
                         status |-> "failed", error |-> InvalidFileType]),
                    fault, embeds, adds)

\* request.files.getlist(key)
getlist(parts, key) == SelectSeq(parts, LAMBDA part : part.key = key)

\* The files the handler takes from the request: those under 'files', else
\* under 'files[]', else under the first key the request holds.
request_files(parts) ==
    LET keys == {parts[i].key : i \in 1..Len(parts)}
    IN  IF "files" \in keys THEN getlist(parts, "files")
        ELSE IF "files[]" \in keys THEN getlist(parts, "files[]")
        ELSE IF parts # <<>> THEN getlist(parts, parts[1].key)
        ELSE <<>>

upload_files(coll, parts, fault) ==
    LET files == request_files(parts)
    IN  IF parts = <<>>
        THEN [store |-> coll, status |-> 400, embeds |-> 0,
              body |-> [error |-> <<"No files provided">>]]
        ELSE IF files = <<>> \/ files[1].filename = <<>>
        THEN [store |-> coll, status |-> 400, embeds |-> 0,
              body |-> [error |-> <<"No files selected">>]]
        ELSE LET r == upload_loop(coll, files, 1, <<>>, fault, 0, 0)
             IN  [store |-> r.store, status |-> 200, embeds |-> r.embeds,
                  body |-> [results |-> r.results]]

\* data.get('n_results', 5)
DefaultNResults == 5

\* The error a fault raises.
ErrorOf(fault) ==
    IF fault.svc = "embed" THEN EmbeddingError
    ELSE IF fault.svc = "generate" THEN GenerationError
    ELSE StoreError

\* The faults a request that calls each service at most once can meet.
SingleCallFaults ==
    {[svc |-> s, call |-> 0] : s \in {"embed", "store", "generate"}}

Fired(fault, out) == fault = NoFault \/ (out.raised /\ out.error = ErrorOf(fault))

---------------------------------------------------------------------------
(* The handlers of app.py, one request each.                               *)

ChunkIdle == [pc |-> "idle"]

Init ==
    /\ store = <<>>
    /\ last = [op |-> "start"]
    /\ ck = ChunkIdle

\* GET /health
Health ==
    /\ last' = [op |-> "health", status |-> 200,
                body |-> [status |-> "ok", message |-> "RAG API is running"]]
    /\ UNCHANGED <<store, ck>>

\* POST /upload; calls bounds the calls a fault may hit.
Upload(requests, calls) ==
    \E parts \in requests :
        LET clean == upload_files(store, parts, NoFault)
        IN  \E fault \in {NoFault} \cup
                    {[svc |-> s, call |-> n] :
                        s \in {"embed", "store"},
                        n \in {m \in 0..(clean.embeds - 1) : m \in calls}} :
                LET out == IF fault = NoFault THEN clean
                           ELSE upload_files(store, parts, fault)
                IN  /\ store' = out.store
                    /\ last' = [op |-> "upload", request |-> parts, fault |-> fault,
                                status |-> out.status, body |-> out.body]
                    /\ UNCHANGED ck

\* POST /query
Query(requests, faults) ==
    \E data \in requests :
        IF "question" \notin DOMAIN data
        THEN /\ last' = [op |-> "query", request |-> data, fault |-> NoFault,
                         status |-> 400, body |-> [error |-> <<"No question provided">>],
                         prompts |-> <<>>]
             /\ UNCHANGED <<store, ck>>
        ELSE \E fault \in {NoFault} \cup faults :
             \E out \in query(store, data.question,
                               IF "n_results" \in DOMAIN data THEN data.n_results
                               ELSE DefaultNResults, fault) :
                /\ Fired(fault, out)
                /\ last' =
                     IF out.raised
                     THEN [op |-> "query", request |-> data, fault |-> fault,
                           status |-> 500, body |-> [error |-> out.error],
                           prompts |-> out.prompts]
                     ELSE IF out.answer = None
                     THEN [op |-> "query", request |-> data, fault |-> fault,
                           status |-> 404, returned |-> <<out.answer, out.sources>>,
                           body |-> [error |-> <<"No documents found. Please upload documents first.">>],
                           prompts |-> out.prompts]
                     ELSE [op |-> "query", request |-> data, fault |-> fault,
                           status |-> 200, returned |-> <<out.answer, out.sources>>,
                           body |-> [question |-> data.question, answer |-> out.answer,
                                     sources |-> out.sources],
                           prompts |-> out.prompts]
                /\ UNCHANGED <<store, ck>>

\* POST /summarize
Summarize(requests, faults) ==
    \E data \in requests :
    \E fault \in {NoFault} \cup faults :
        LET out == summarize(store, data.filename, fault)
        IN  /\ Fired(fault, out)
            /\ last' =
                 IF out.raised
                 THEN [op |-> "summarize", request |-> data, fault |-> fault,
                       status |-> 500, body |-> [error |-> out.error],
                       prompts |-> out.prompts]
                 ELSE [op |-> "summarize", request |-> data, fault |-> fault,
                       status |-> 200,
                       body |-> [summary |-> out.returned,
                                 filename |-> IF data.filename # None /\ data.filename # <<>>
                                              THEN data.filename
                                              ELSE <<"all documents">>],
                       prompts |-> out.prompts]
            /\ UNCHANGED <<store, ck>>

\* GET /stats
Stats ==
    \E fault \in {NoFault, [svc |-> "store", call |-> 0]} :
        /\ last' = IF fault = NoFault
                   THEN [op |-> "stats", fault |-> fault, status |-> 200,
                         body |-> get_stats(store)]
                   ELSE [op |-> "stats", fault |-> fault, status |-> 500,
                         body |-> [error |-> StoreError]]
        /\ UNCHANGED <<store, ck>>

\* DELETE /clear
Clear ==
    \E out \in collection_delete(store) :
        /\ store' = out.store
        /\ last' = IF out.raised
                   THEN [op |-> "clear", fault |-> NoFault, status |-> 500,
                         body |-> [error |-> out.error]]
                   ELSE [op |-> "clear", fault |-> NoFault, status |-> 200,
                         body |-> [message |-> "All documents cleared"]]
        /\ UNCHANGED ck

\* Every handler, the uploads small and many, the questions few.
NextIngest ==
    \/ Health
    \/ Upload(IngestUploads, Nat)
    \/ Query({[question |-> <<"a">>]}, {})
    \/ Summarize({[filename |-> None]}, {})
    \/ Stats
    \/ Clear

SpecIngest == Init /\ [][NextIngest]_vars

\* Every handler, the uploads few and large, the questions many.  A fault
\* hits the first or the last chunk of an upload.
NextRead ==
    \/ Health
    \/ Upload(ReadUploads, {0, 20})
    \/ Query(QueryRequests, SingleCallFaults)
    \/ Summarize(SummarizeRequests, SingleCallFaults)
    \/ Stats
    \/ Clear

SpecRead == Init /\ [][NextRead]_vars

---------------------------------------------------------------------------
(* Inputs of the chunker.                                                  *)

Alphabet == {" ", "a", "b"}

RECURSIVE SeqsUpTo(_, _)
SeqsUpTo(S, n) ==
    IF n = 0 THEN {<<>>}
    ELSE LET shorter == SeqsUpTo(S, n - 1)
         IN  shorter \cup {Append(s, c) : s \in {t \in shorter : Len(t) = n - 1}, c \in S}

SmallTexts == SeqsUpTo(Alphabet, MaxLen)

SmallConfigs ==
    {[chunk_size |-> cs, overlap |-> ov] : cs \in 1..MaxChunkSize, ov \in 0..MaxChunkSize}

DefaultConfig == [chunk_size |-> DefaultChunkSize, overlap |-> DefaultOverlap]

LongTexts ==
    {LongText(len, 1, 0) : len \in {799, 800, 801, 900, 999, 1000, 1001, 1599, 1601, 1700, 1800, 2401, 2700}}
    \cup {LongText(2700, 801, 1800), LongText(2700, 1601, 2700),
          LongText(1700, 1, 1000), LongText(1700, 1, 1700)}

ChunkCalls ==
    {[text |-> t, chunk_size |-> c.chunk_size, overlap |-> c.overlap] :
        t \in SmallTexts, c \in SmallConfigs \cup {DefaultConfig}}
    \cup {[text |-> t, chunk_size |-> DefaultChunkSize, overlap |-> DefaultOverlap] :
        t \in LongTexts}

---------------------------------------------------------------------------
(* chunk_text, one iteration at a time.                                    *)

InitChunk ==
    /\ store = <<>>
    /\ last = [op |-> "start"]
    /\ \E c \in ChunkCalls :
        ck = [pc |-> "while", text |-> c.text, chunk_size |-> c.chunk_size,
              overlap |-> c.overlap, start |-> 0, chunks |-> <<>>, iters |-> 0]

\* while start < text_len: the body
ChunkIterate ==
    /\ ck.pc = "while"
    /\ ck.start < Len(ck.text)
    /\ ck.iters < MaxIters
    /\ LET st == chunk_iter(ck.text, ck.chunk_size, ck.overlap,
                            [start |-> ck.start, chunks |-> ck.chunks])
       IN  ck' = [ck EXCEPT !.start = st.start, !.chunks = st.chunks,
                            !.iters = @ + 1]
    /\ UNCHANGED <<store, last>>

\* the loop condition fails: return chunks
ChunkReturn ==
    /\ ck.pc = "while"
    /\ ~(ck.start < Len(ck.text))
    /\ ck' = [ck EXCEPT !.pc = "return"]
    /\ UNCHANGED <<store, last>>

NextChunk == ChunkIterate \/ ChunkReturn

SpecChunk == InitChunk /\ [][NextChunk]_vars

---------------------------------------------------------------------------
(* Properties of chunk_text, checked under SpecChunk.                      *)

ChunkReturned == ck.pc = "return"

\* C2: whenever overlap >= chunk_size the call raises InvalidChunkConfig: the
\* loop body is never run with a cursor step that is not positive, and the
\* call does not return a list of chunks.
C2_InvalidConfigFailsFast ==
    (ck.pc # "idle" /\ ck.overlap >= ck.chunk_size) =>
        (ck.iters = 0 /\ ck.pc # "return")

ShortInput ==
    /\ ChunkReturned
    /\ ck.overlap < ck.chunk_size
    /\ Len(ck.text) > 0
    /\ Len(ck.text) < ck.chunk_size

\* C9 as stated: every non-empty text shorter than chunk_size (overlap <
\* chunk_size) yields exactly one chunk, the untrimmed input.
C9_ShortTextIsOneChunk == ShortInput => ck.chunks = <<ck.text>>

\* C9 as amended: a text shorter than chunk_size that holds a character other
\* than whitespace has the untrimmed input as its first chunk, and as its only
\* chunk when it is no longer than chunk_size - overlap; a text of whitespace
\* alone yields no chunk.
C9_ShortTextFirstChunk ==
    ShortInput =>
        /\ strip(ck.text) = <<>> => ck.chunks = <<>>
        /\ strip(ck.text) # <<>> => Len(ck.chunks) >= 1 /\ ck.chunks[1] = ck.text
        /\ (strip(ck.text) # <<>> /\ Len(ck.text) <= ck.chunk_size - ck.overlap)
              => ck.chunks = <<ck.text>>

\* A short text with leading or trailing whitespace was returned as one chunk.
C9_Witness ==
    /\ ShortInput
    /\ ck.chunks = <<ck.text>>
    /\ strip(ck.text) # ck.text

DefaultsReturned ==
    /\ ChunkReturned
    /\ ck.chunk_size = DefaultChunkSize
    /\ ck.overlap = DefaultOverlap

NoWindowSkipped ==
    \A j \in 0..((Len(ck.text) - 1) \div (DefaultChunkSize - DefaultOverlap)) :
        strip(PySlice(ck.text, j * (DefaultChunkSize - DefaultOverlap),
                      j * (DefaultChunkSize - DefaultOverlap) + DefaultChunkSize)) # <<>>

---------------------------------------------------------------------------
(* Properties of POST /upload, DELETE /clear and GET /stats, checked under *)
(* SpecIngest.  In a step, last' is the request the step served, store the *)
(* collection before it and store' the collection after it.               *)

StoredIds(coll) == {coll[i].id : i \in 1..Len(coll)}

Entry(coll, id) == coll[CHOOSE i \in 1..Len(coll) : coll[i].id = id]

IsUpload(l) == l.op = "upload" /\ l.status = 200

\* The positions of the files of an upload that add_document returned for.
Ingested(up) ==
    {i \in 1..Len(up.body.results) : up.body.results[i].status = "success"}

\* The chunks of the file at position i of an upload, and the ids they go by.
FileChunks(up, i) ==
    chunk_text_default(
        extract_text(up.body.results[i].filename, request_files(up.request)[i].content).text)

FileId(up, i, k) == chunk_id(md5_hexdigest(up.body.results[i].filename), k)

FileIds(up, i) == {FileId(up, i, k) : k \in 0..(Len(FileChunks(up, i)) - 1)}

OneFileIngested(up, i) ==
    /\ IsUpload(up)
    /\ up.fault = NoFault
    /\ Ingested(up) = {i}

UploadPositions(l) == IF IsUpload(l) THEN 1..Len(l.body.results) ELSE {}

\* C1: an ingest of a file whose ids the collection already holds, as many as
\* the new text has chunks, leaves the count as it was and puts the text and
\* the embedding of each new chunk under its id.
C1_ReingestOverwrites ==
    [][\A i \in UploadPositions(last') :
        (/\ OneFileIngested(last', i)
         /\ FileIds(last', i) # {}
         /\ {id \in StoredIds(store) : id.doc_id = FileId(last', i, 0).doc_id}
                = FileIds(last', i))
        => /\ get_stats(store').total_chunks = get_stats(store).total_chunks
           /\ \A k \in 0..(Len(FileChunks(last', i)) - 1) :
                LET chunk == FileChunks(last', i)[k + 1]
                    e == Entry(store', FileId(last', i, k))
                IN  e.document = chunk /\ e.embedding = get_embedding(chunk)]_vars

\* C3: after clear() the collection is empty, so stats() reports 0 chunks.
C3_ClearEmptiesTheStore ==
    last.op = "clear" => get_stats(store).total_chunks = 0

\* The calls of the failing service the files before position i have made.
RECURSIVE CallsBefore(_, _)
CallsBefore(up, i) ==
    IF i <= 1 THEN 0
    ELSE CallsBefore(up, i - 1)
         + (IF up.body.results[i - 1].status = "success"
            THEN up.body.results[i - 1].chunks_created ELSE 0)

\* C5: when the embedding or the write of chunk c of a file fails, the file is
\* reported failed with that error, the chunks 0..c-1 of this call are stored
\* under their ids, and no chunk from c on is written.
C5_PartialFailureKeepsEarlierChunks ==
    [][(IsUpload(last') /\ last'.fault # NoFault) =>
        \E i \in UploadPositions(last') :
            /\ last'.body.results[i].status = "failed"
            /\ last'.body.results[i].error = ErrorOf(last'.fault)
            /\ LET c == last'.fault.call - CallsBefore(last', i)
                   chunks == FileChunks(last', i)
               IN  /\ 0 <= c /\ c < Len(chunks)
                   /\ \A k \in 0..(c - 1) :
                        /\ FileId(last', i, k) \in StoredIds(store')
                        /\ Entry(store', FileId(last', i, k)).document = chunks[k + 1]
                   /\ \A k \in c..(Len(chunks) - 1) :
                        FileId(last', i, k) \in StoredIds(store') =>
                            /\ FileId(last', i, k) \in StoredIds(store)
                            /\ Entry(store', FileId(last', i, k))
                                  = Entry(store, FileId(last', i, k))]_vars

\* C6: an ingest of a file of N chunks, none of whose ids the collection
\* holds, reports N chunks created and raises the count of stats() by N.
C6_IngestAddsItsChunks ==
    [][\A i \in UploadPositions(last') :
        (/\ OneFileIngested(last', i)
         /\ FileIds(last', i) \cap StoredIds(store) = {})
        => /\ last'.body.results[i].chunks_created = Len(FileChunks(last', i))
           /\ get_stats(store').total_chunks
                = get_stats(store).total_chunks + Len(FileChunks(last', i))]_vars

\* A text of three windows, the middle one skipped, was ingested into a
\* collection that held the chunk of another file.
C6_Witness ==
    /\ OneFileIngested(last, 1)
    /\ last.body.results[1].chunks_created = 2
    /\ Len(request_files(last.request)[1].content[1])
          > 2 * (DefaultChunkSize - DefaultOverlap)
    /\ Len(store) = 3
    /\ store[1].metadata.filename = B_pdf
    /\ store[2].id = FileId(last, 1, 0)
    /\ store[3].id = FileId(last, 1, 1)

---------------------------------------------------------------------------
(* Properties of POST /query and POST /summarize, checked under SpecRead.  *)

AsksQuestion(l) == l.op = "query" /\ "question" \in DOMAIN l.request

NResults(l) ==
    IF "n_results" \in DOMAIN l.request THEN l.request.n_results ELSE DefaultNResults

\* C4: a query that retrieves nothing returns (None, []) and is answered 404;
\* no query on an empty collection passes a prompt to ollama.generate.
C4_EmptyRetrievalSkipsGenerator ==
    (AsksQuestion(last) /\ store = <<>>) =>
        /\ last.prompts = <<>>
        /\ (last.fault = NoFault /\ NResults(last) >= 1) =>
              /\ last.status = 404
              /\ last.returned = <<None, <<>>>>

C4_Witness ==
    /\ AsksQuestion(last)
    /\ store = <<>>
    /\ last.fault = NoFault
    /\ last.status = 404
    /\ last.returned = <<None, <<>>>>

StoredFilenames == {store[i].metadata.filename : i \in 1..Len(store)}

\* C7: a query with n_results >= 1 on a collection that holds a chunk is
\* answered with sources that are not empty, are filenames of stored chunks,
\* and name no file twice.
C7_SourcesAreDistinctStoredFiles ==
    (AsksQuestion(last) /\ last.fault = NoFault /\ NResults(last) >= 1 /\ store # <<>>) =>
        /\ last.status = 200
        /\ last.body.sources = last.returned[2]
        /\ last.body.sources # <<>>
        /\ SeqRange(last.body.sources) \subseteq StoredFilenames
        /\ \A i, j \in 1..Len(last.body.sources) :
              last.body.sources[i] = last.body.sources[j] => i = j

\* Five chunks were retrieved, all of one file.
C7_Witness ==
    /\ AsksQuestion(last)
    /\ last.status = 200
    /\ NResults(last) = DefaultNResults
    /\ Len(store) >= DefaultNResults
    /\ StoredFilenames = {A_txt}
    /\ last.body.sources = <<A_txt>>

\* The texts summarize(filename) reads: of every chunk, or of the chunks of
\* the file when a filename is given.
SummarizedTexts(l) ==
    LET f == l.request.filename
        all == [i \in 1..Len(store) |-> store[i].document]
        picked == SelectSeq(store, LAMBDA rec : rec.metadata.filename = f)
    IN  IF f = None \/ f = <<>> THEN all
        ELSE [i \in 1..Len(picked) |-> picked[i].document]

\* C8: the prompt of summarize() holds the first 20 texts of the result set,
\* or all of them when there are fewer; on an empty result set the summary is
\* the fixed message and ollama.generate is not called.
C8_SummaryReadsAtMostTwenty ==
    (last.op = "summarize") =>
        LET texts == SummarizedTexts(last)
        IN  /\ (texts = <<>> /\ last.fault = NoFault) =>
                  /\ last.status = 200
                  /\ last.body.summary = NoDocumentsFound
            /\ texts = <<>> => last.prompts = <<>>
            /\ (texts # <<>> /\ last.fault = NoFault) =>
                  /\ last.status = 200
                  /\ Len(last.prompts) = 1
            /\ last.prompts # <<>> =>
                  last.prompts[1].sample_text =
                      join(<<"\n">>, IF Len(texts) > 20 THEN SubSeq(texts, 1, 20) ELSE texts)

\* A file of 21 chunks was summarized.
C8_Witness ==
    /\ last.op = "summarize"
    /\ last.status = 200
    /\ last.request.filename = A_txt
    /\ Len(SummarizedTexts(last)) > 20
    /\ Len(last.prompts) = 1

=============================================================================
